---- MODULE Spec2Model ----
(***************************************************************************)
(* A model of the retrieval index of backend/rag_retriever.py, of the      *)
(* request handlers of backend/app.py and backend/admin_routes.py that     *)
(* write it, and of the query rewriting of backend/rag_generator.py.       *)
(*                                                                         *)
(* The index is three module globals (corpus, corpus_metadata,             *)
(* corpus_embeddings) and two files (corpus_embeddings.npy, corpus.json).  *)
(* Each request runs on a thread of its own; a thread switch can happen    *)
(* between any two statements, so every statement that reads or writes a   *)
(* global or a file is one step of the thread executing it.                *)
(***************************************************************************)
EXTENDS Integers, Sequences, FiniteSets, TLC

\* ------------------------------------------------------------- bounds
NWriters == 2
NReaders == 1
MaxTopK == 1
MaxRequests == 4
MaxChunks == 3
MaxHistory == 3
MaxChatTurns == 2
MaxLines == 3
MaxWindowTurns == 8
MaxThreadedRequests == 3

Writers == 1..NWriters
Readers == (NWriters + 1)..(NWriters + NReaders)
Threads == Writers \cup Readers

\* ---------------------------------------------------- program constants
MIN_CHUNK_CHARS == 60
MAX_CHUNK_CHARS == 1200
MIN_PART_CHARS == 30
MIN_PAGE_CHARS == 30
batch_size == 64
BOOST_NUM == 13
BOOST_DEN == 10
DEFAULT_TOP_K == 5
CONTACT_TOP_K == 12

\* ------------------------------------------------------------ documents
\* A file name is <<stem, extension>>; a document content is a sequence of
\* pages as the format's reader would return them, or unparsable.
FileNames ==
  { <<"guide", ".txt">>, <<"staff", ".CSV">>, <<"tool", ".exe">>,
    <<"scan", ".pdf">> }
Absent == "absent"

\* What an upload can store under each name (file.save overwrites).
Uploads ==
  { << <<"guide", ".txt">>, "guide" >>,
    << <<"guide", ".txt">>, "note"  >>,
    << <<"staff", ".CSV">>, "staff" >>,
    << <<"tool", ".exe">>,  "guide" >> }

\* str.lower() on the extensions that occur.
Lower(ext) ==
  CASE ext = ".CSV" -> ".csv"
    [] ext = ".TXT" -> ".txt"
    [] ext = ".PDF" -> ".pdf"
    [] OTHER -> ext

\* The pages each reader returns for a content: (page number, text). A
\* reader that fails returns what it had when the exception was caught:
\* nothing for a file that cannot be opened or parsed ("unreadable"), the
\* first page for a PDF whose second page fails ("scan_damaged", lines 50-54).
RawPages(content) ==
  CASE content = "guide" -> << [num |-> 1, text |-> "guide_text"] >>
    [] content = "staff" -> << [num |-> 1, text |-> "staff_row"] >>
    [] content = "note"  -> << [num |-> 1, text |-> "note_text"] >>
    [] content = "scan"  -> << [num |-> 1, text |-> "scan_p1"],
                               [num |-> 2, text |-> "scan_p2"] >>
    [] content = "scan_damaged" -> << [num |-> 1, text |-> "scan_p1"] >>
    [] OTHER -> << >>

extract_text_from_txt(content) == RawPages(content)
extract_text_from_pdf(content) == RawPages(content)
extract_text_from_csv(content) == RawPages(content)

extract_text(name, content) ==
  LET ext == Lower(name[2]) IN
  CASE ext = ".pdf" -> extract_text_from_pdf(content)
    [] ext = ".txt" -> extract_text_from_txt(content)
    [] ext = ".csv" -> extract_text_from_csv(content)
    [] OTHER -> << >>

\* len(text.strip()) of each page text.
StrippedLen(text) ==
  CASE text = "guide_text" -> 150
    [] text = "staff_row"  -> 90
    [] text = "note_text"  -> 40
    [] text = "scan_p1"    -> 100
    [] text = "scan_p2"    -> 100
    [] OTHER -> 0

\* The chunks the cascade cuts a long enough text into.
CascadeChunks(text) ==
  CASE text = "guide_text" -> << "g0", "g1" >>
    [] text = "staff_row"  -> << "s0" >>
    [] text = "scan_p1"    -> << "p1" >>
    [] text = "scan_p2"    -> << "p2" >>
    [] OTHER -> << text >>

smart_chunk_text(text) ==
  IF StrippedLen(text) < MIN_CHUNK_CHARS THEN << >> ELSE CascadeChunks(text)

ChunkLen(chunk) ==
  CASE chunk = "g0" -> 80
    [] chunk = "g1" -> 70
    [] chunk = "s0" -> 90
    [] chunk = "p1" -> 100
    [] chunk = "p2" -> 100
    [] OTHER -> 0

\* bool(EMAIL_RE.search(chunk)), bool(PHONE_RE.search(chunk))
HasEmail(chunk) == chunk \in { "g1", "s0" }
HasPhone(chunk) == chunk \in { "s0" }

MakeMeta(filename, page_num, i, chunk) ==
  [ source_file    |-> filename,
    page           |-> page_num,
    chunk_id       |-> << page_num, i >>,
    length         |-> ChunkLen(chunk),
    contains_email |-> HasEmail(chunk),
    contains_phone |-> HasPhone(chunk) ]

\* The entries one page adds to corpus_data (lines 197-210).
PageEntries(filename, page) ==
  IF StrippedLen(page.text) < MIN_PAGE_CHARS THEN << >>
  ELSE LET chunks == smart_chunk_text(page.text) IN
       [ k \in 1..Len(chunks) |->
           [ text |-> chunks[k],
             meta |-> MakeMeta(filename, page.num, k - 1, chunks[k]) ] ]

RECURSIVE PagesEntries(_, _)
PagesEntries(filename, pages) ==
  IF pages = << >> THEN << >>
  ELSE PageEntries(filename, Head(pages)) \o PagesEntries(filename, Tail(pages))

\* The entries of the files of a folder, visited in the order `order`.
RECURSIVE FolderEntries(_, _)
FolderEntries(folder, order) ==
  IF order = << >> THEN << >>
  ELSE LET f == Head(order) IN
       PagesEntries(f, extract_text(f, folder[f]))
         \o FolderEntries(folder, Tail(order))

\* os.listdir: the names present, in an order the file system chooses.
Listings(folder) ==
  LET present == { f \in FileNames : folder[f] # Absent } IN
  { o \in [1..Cardinality(present) -> present] :
      \A i, j \in 1..Cardinality(present) : i # j => o[i] # o[j] }

Texts(cd) == [ k \in 1..Len(cd) |-> cd[k].text ]
Metas(cd) == [ k \in 1..Len(cd) |-> cd[k].meta ]

\* ----------------------------------------------------------- embeddings
\* The embedder: a fixed vector per text (deterministic for a fixed model).
EmbedOne(text) ==
  CASE text = "g0" -> << 1, 0 >>
    [] text = "g1" -> << 0, 1 >>
    [] text = "s0" -> << 3, 4 >>
    [] OTHER -> << 1, 0 >>

\* embed_model.embed(batch): one vector per text of the batch.
Embed(batch) == [ k \in 1..Len(batch) |-> EmbedOne(batch[k]) ]

\* A numpy array, or None.
NoneArray == [ none |-> TRUE, rows |-> << >> ]
Array(rows) == [ none |-> FALSE, rows |-> rows ]

\* ------------------------------------------------------ persisted files
NoFile == [ st |-> "absent", shape |-> << 0, 0 >>, data |-> << >> ]
CorruptFile == [ st |-> "corrupt", shape |-> << 0, 0 >>, data |-> << >> ]

RECURSIVE Flatten(_)
Flatten(rows) ==
  IF rows = << >> THEN << >> ELSE Head(rows) \o Flatten(Tail(rows))

\* np.save: the shape and the values in row-major order. None is pickled as
\* an object array, which np.load refuses to read.
NpSave(arr) ==
  IF arr.none THEN CorruptFile
  ELSE [ st    |-> "ok",
         shape |-> << Len(arr.rows),
                      IF arr.rows = << >> THEN 0 ELSE Len(arr.rows[1]) >>,
         data  |-> Flatten(arr.rows) ]

\* np.load: the rows cut out of the flat data again.
NpLoad(file) ==
  LET n == file.shape[1]
      d == file.shape[2]
  IN  Array([ i \in 1..n |-> [ j \in 1..d |-> file.data[(i - 1) * d + j] ] ])

\* json.dump of corpus_data: a list of objects, each a list of key/value
\* pairs in insertion order.
JsonMeta(m) ==
  << << "source_file", m.source_file >>, << "page", m.page >>,
     << "chunk_id", m.chunk_id >>, << "length", m.length >>,
     << "contains_email", m.contains_email >>,
     << "contains_phone", m.contains_phone >> >>

JsonDump(cd) ==
  [ st   |-> "ok",
    shape |-> << Len(cd), 2 >>,
    data |-> [ k \in 1..Len(cd) |->
                 << << "text", cd[k].text >>,
                    << "meta", JsonMeta(cd[k].meta) >> >> ] ]

\* obj[key] of a parsed JSON object.
JsonGet(obj, key) ==
  obj[CHOOSE i \in 1..Len(obj) : obj[i][1] = key][2]

\* A load that loses the last record of the file.
JsonLoadDropsLast(file) ==
  [ k \in 1..(Len(file.data) - 1) |->
      [ text |-> JsonGet(file.data[k], "text"),
        meta |-> JsonGet(file.data[k], "meta") ] ]

\* json.load, then c["text"] and c["meta"] as load_index reads them.
JsonLoad(file) ==
  [ k \in 1..Len(file.data) |->
      LET m == JsonGet(file.data[k], "meta") IN
      [ text |-> JsonGet(file.data[k], "text"),
        meta |-> [ source_file    |-> JsonGet(m, "source_file"),
                   page           |-> JsonGet(m, "page"),
                   chunk_id       |-> JsonGet(m, "chunk_id"),
                   length         |-> JsonGet(m, "length"),
                   contains_email |-> JsonGet(m, "contains_email"),
                   contains_phone |-> JsonGet(m, "contains_phone") ] ] ]

\* A clear that leaves the files of knowledge_base/index in place.
RemoveIndexFileKeepsIt(file) == file

\* os.remove of every file of knowledge_base/index.
RemoveIndexFile(file) == NoFile

\* ------------------------------------------------------------ messages
\* A message is the sequence of its whitespace-separated words. The keyword
\* tests of the code are substring tests on the lower-cased message
\* (`word in s.lower()`); no keyword holds a blank, so a keyword is in the
\* message iff it is in one of its words. KeywordsIn(w) lists the keywords
\* that are substrings of w.lower().
KeywordsIn(w) ==
  CASE w = "Smith"   -> { "it" }
    [] w = "with"    -> { "it" }
    [] w = "her"     -> { "her" }
    [] w = "his"     -> { "his" }
    [] w = "phone?"  -> { "phone", "ph" }
    [] w = "phone"   -> { "phone", "ph" }
    [] w = "Physics" -> { "ph" }
    [] w = "email"   -> { "email" }
    [] w = "contact" -> { "contact" }
    [] w = "address" -> { "address" }
    [] OTHER -> { }

\* any(word in message.lower() for word in words)
AnyWordIn(words, message) ==
  \E k \in 1..Len(message) : KeywordsIn(message[k]) \cap words # { }

RETRIEVER_CONTACT_WORDS ==
  { "email", "contact", "phone", "mobile", "number", "call", "reach", "ph" }

\* ------------------------------------------------------------ retrieval
Min(a, b) == IF a < b THEN a ELSE b

ISqrt(n) == CHOOSE r \in 0..n : r * r <= n /\ n < (r + 1) * (r + 1)

RECURSIVE Dot(_, _)
Dot(a, b) ==
  IF a = << >> \/ b = << >> THEN 0
  ELSE Head(a) * Head(b) + Dot(Tail(a), Tail(b))

Norm(a) == ISqrt(Dot(a, a))

\* Scores are in thousandths. The vectors of the model have whole norms, so
\* the normalised dot product is exact.
cosine_similarity(a, b) ==
  [ k \in 1..Len(b) |-> (1000 * Dot(a, b[k])) \div (Norm(a) * Norm(b[k])) ]

\* embed_model.embed([query])
EmbedQuery(query) ==
  IF AnyWordIn({ "email" }, query) THEN << 0, 1 >> ELSE << 1, 0 >>

ContactFlag(meta) == meta.contains_email \/ meta.contains_phone

\* sims[i] *= 1.3 for a row the array does not have: IndexError.
BoostRaises(sims, metas) ==
  \E k \in 1..Len(metas) : ContactFlag(metas[k]) /\ k > Len(sims)

BoostSims(sims, metas) ==
  [ k \in 1..Len(sims) |->
      IF k <= Len(metas) /\ ContactFlag(metas[k])
      THEN (sims[k] * BOOST_NUM) \div BOOST_DEN
      ELSE sims[k] ]

\* np.argsort(-sims): the default sort (quicksort) is not stable, so rows of
\* equal score come out in an order the library chooses.
ArgSorts(sims) ==
  { p \in [1..Len(sims) -> 1..Len(sims)] :
      /\ \A i, j \in 1..Len(sims) : i # j => p[i] # p[j]
      /\ \A i, j \in 1..Len(sims) : i < j => sims[p[i]] >= sims[p[j]] }

\* order[:top_k], for top_k >= 0
TopIndices(order, top_k) == SubSeq(order, 1, Min(top_k, Len(order)))

Results(texts, sims, top) ==
  [ k \in 1..Len(top) |-> [ text |-> texts[top[k]], similarity |-> sims[top[k]] ] ]

\* ---------------------------------------------------------------- state
VARIABLES
  corpus,             \* rag_retriever.corpus: the chunk texts
  corpus_metadata,    \* rag_retriever.corpus_metadata
  corpus_embeddings,  \* rag_retriever.corpus_embeddings: an array or None
  docs,               \* knowledge_base/docs: file name -> content
  emb_file,           \* knowledge_base/index/corpus_embeddings.npy
  corpus_file,        \* knowledge_base/index/corpus.json
  pc,                 \* the statement each request thread is at
  loc,                \* the local variables of each request thread
  hist,               \* history: what the last writers did
  threaded,           \* app.run(threaded=...): requests served concurrently
  started,            \* the number of requests, restarts and faults so far
  rk,                 \* the ranking under check (specification RankSpec)
  rw,                 \* the rewriting under check (specification RewriteSpec)
  ch,                 \* the chat request under check (specification ChatSpec)
  ck                  \* the chunking under check (specification ChunkSpec)

indexVars == << corpus, corpus_metadata, corpus_embeddings, docs, emb_file,
                corpus_file, pc, loc, hist, threaded, started >>
vars == << corpus, corpus_metadata, corpus_embeddings, docs, emb_file,
           corpus_file, pc, loc, hist, threaded, started, rk, rw, ch, ck >>

WriterIdle ==
  [ op |-> "none", corpus_data |-> << >>,
    embeddings |-> << >>, i |-> 0, n |-> 0, fault |-> "none",
    outcome |-> "none" ]

ReaderIdle ==
  [ query |-> << >>, top_k |-> 0, contact |-> FALSE, sims |-> << >>,
    used_emb |-> NoneArray, used_meta |-> << >>, used_corpus |-> << >>,
    result |-> << >>, outcome |-> "none" ]

HistInit ==
  [ sinceClear |-> FALSE, hadIndex |-> FALSE, loaded |-> FALSE,
    lastBuild |-> "none", built |-> << >>,
    before |-> [ corpus |-> << >>, metadata |-> << >>, embeddings |-> NoneArray ] ]

RankIdle == [ st |-> "off" ]
RewriteIdle == [ st |-> "off" ]
ChatIdle == [ st |-> "off" ]
ChunkIdle == [ st |-> "off" ]

\* The process has started on an empty knowledge base: load_index() found
\* no saved index.
Init ==
  /\ corpus = << >>
  /\ corpus_metadata = << >>
  /\ corpus_embeddings = NoneArray
  /\ docs = [ f \in FileNames |-> Absent ]
  /\ emb_file = NoFile
  /\ corpus_file = NoFile
  /\ pc = [ t \in Threads |-> "idle" ]
  /\ loc = [ t \in Threads |-> IF t \in Writers THEN WriterIdle ELSE ReaderIdle ]
  /\ hist = HistInit
  /\ threaded \in BOOLEAN
  /\ started = 0

\* load_index() runs at import time, before the first request is served.
Loading == \E w \in Writers : loc[w].op = "load"

\* A thread steps when the server lets it: at any time when requests are
\* served concurrently, and only while every other thread is idle otherwise.
Solo(t) == \A u \in Threads \ { t } : pc[u] = "idle"
At(t, label) == pc[t] = label /\ (threaded \/ Solo(t))

\* The server hands a request to a free thread; which one is immaterial, so
\* it is the first free one of its pool.
Free(t) ==
  /\ pc[t] = "idle"
  /\ \A u \in Threads : (u < t /\ (u \in Writers <=> t \in Writers)) => pc[u] # "idle"
  /\ threaded \/ Solo(t)

\* The events (requests, restarts, injected faults) a run may still see.
Budget == IF threaded THEN MaxThreadedRequests ELSE MaxRequests

fixed == << threaded, rk, rw, ch, ck >>

Goto(t, label) == pc' = [ pc EXCEPT ![t] = label ]

BuildStarts ==
  [ hist EXCEPT !.sinceClear = FALSE, !.lastBuild = "none", !.built = << >>,
                !.before = [ corpus |-> corpus, metadata |-> corpus_metadata,
                             embeddings |-> corpus_embeddings ] ]

\* ------------------------------------------------------- upload_documents
\* file.save(filepath), then load_documents_and_build_index(UPLOAD_FOLDER)
upload_documents(w, u) ==
  /\ Free(w) /\ ~Loading /\ started < Budget
  /\ started' = started + 1
  /\ docs' = [ docs EXCEPT ![u[1]] = u[2] ]
  /\ loc' = [ loc EXCEPT ![w] = [ WriterIdle EXCEPT !.op = "upload" ] ]
  /\ Goto(w, "b_enter")
  /\ hist' = BuildStarts
  /\ UNCHANGED << corpus, corpus_metadata, corpus_embeddings, emb_file,
                  corpus_file, fixed >>

\* ---------------------------------------- load_documents_and_build_index
\* lines 185-210: every file of the folder, in listing order. The folder
\* exists: app.py line 18 and save_files create it before any build, and no
\* handler removes it, so lines 186-188 are never reached.
BuildScan(w) ==
  /\ At(w, "b_enter")
  /\ \E order \in Listings(docs) :
       LET cd == FolderEntries(docs, order) IN
       /\ loc' = [ loc EXCEPT ![w].corpus_data = cd ]
       /\ Goto(w, IF cd = << >> THEN "b_notext" ELSE "b_corpus")
  /\ UNCHANGED << corpus, corpus_metadata, corpus_embeddings, docs, emb_file,
                  corpus_file, hist, started, fixed >>

\* lines 212-215
BuildNoText(w) ==
  /\ At(w, "b_notext")
  /\ corpus' = << >>
  /\ corpus_metadata' = << >>
  /\ corpus_embeddings' = NoneArray
  /\ loc' = [ loc EXCEPT ![w].outcome = "returned" ]
  /\ Goto(w, "done")
  /\ hist' = [ hist EXCEPT !.lastBuild = "empty" ]
  /\ UNCHANGED << docs, emb_file, corpus_file, started, fixed >>

\* line 217
BuildSetCorpus(w) ==
  /\ At(w, "b_corpus")
  /\ corpus' = Texts(loc[w].corpus_data)
  /\ Goto(w, "b_meta")
  /\ UNCHANGED << corpus_metadata, corpus_embeddings, docs, emb_file,
                  corpus_file, loc, hist, started, fixed >>

\* line 218
BuildSetMeta(w) ==
  /\ At(w, "b_meta")
  /\ corpus_metadata' = Metas(loc[w].corpus_data)
  /\ Goto(w, "b_loop")
  /\ UNCHANGED << corpus, corpus_embeddings, docs, emb_file, corpus_file,
                  loc, hist, started, fixed >>

\* lines 219-221: range(0, len(corpus), batch_size) reads the global corpus
BuildLoopEnter(w) ==
  /\ At(w, "b_loop")
  /\ loc' = [ loc EXCEPT ![w].i = 0, ![w].n = Len(corpus) ]
  /\ Goto(w, IF Len(corpus) = 0 THEN "b_setemb" ELSE "b_embed")
  /\ UNCHANGED << corpus, corpus_metadata, corpus_embeddings, docs, emb_file,
                  corpus_file, hist, started, fixed >>

\* lines 222-223: one batch, cut out of the global corpus
BuildEmbedBatch(w) ==
  /\ At(w, "b_embed")
  /\ LET i == loc[w].i
         batch == SubSeq(corpus, i + 1, Min(i + batch_size, Len(corpus)))
     IN  /\ loc' = [ loc EXCEPT ![w].embeddings = @ \o Embed(batch),
                                ![w].i = i + batch_size ]
         /\ Goto(w, IF i + batch_size < loc[w].n THEN "b_embed" ELSE "b_setemb")
  /\ UNCHANGED << corpus, corpus_metadata, corpus_embeddings, docs, emb_file,
                  corpus_file, hist, started, fixed >>

\* line 223: the embedder raises; nothing in the function catches it
BuildEmbedRaises(w) ==
  /\ At(w, "b_embed")
  /\ started < Budget
  /\ started' = started + 1
  /\ loc' = [ loc EXCEPT ![w].fault = "embed", ![w].outcome = "raised" ]
  /\ Goto(w, "done")
  /\ hist' = [ hist EXCEPT !.lastBuild = "failed" ]
  /\ UNCHANGED << corpus, corpus_metadata, corpus_embeddings, docs, emb_file,
                  corpus_file, fixed >>

\* line 225
BuildSetEmbeddings(w) ==
  /\ At(w, "b_setemb")
  /\ corpus_embeddings' = Array(loc[w].embeddings)
  /\ Goto(w, "b_saveemb")
  /\ UNCHANGED << corpus, corpus_metadata, docs, emb_file, corpus_file, loc,
                  hist, started, fixed >>

\* lines 227-228
BuildSaveEmbeddings(w) ==
  /\ At(w, "b_saveemb")
  /\ emb_file' = NpSave(corpus_embeddings)
  /\ Goto(w, "b_savejson")
  /\ UNCHANGED << corpus, corpus_metadata, corpus_embeddings, docs,
                  corpus_file, loc, hist, started, fixed >>

\* lines 227-228: makedirs or np.save raises; the file is as it was, or cut
BuildSaveEmbeddingsRaises(w) ==
  /\ At(w, "b_saveemb")
  /\ started < Budget
  /\ started' = started + 1
  /\ emb_file' \in { emb_file, CorruptFile }
  /\ loc' = [ loc EXCEPT ![w].fault = "save_embeddings",
                             ![w].outcome = "raised" ]
  /\ Goto(w, "done")
  /\ hist' = [ hist EXCEPT !.lastBuild = "failed" ]
  /\ UNCHANGED << corpus, corpus_metadata, corpus_embeddings, docs,
                  corpus_file, fixed >>

\* lines 229-232
BuildSaveCorpus(w) ==
  /\ At(w, "b_savejson")
  /\ corpus_file' = JsonDump(loc[w].corpus_data)
  /\ loc' = [ loc EXCEPT ![w].outcome = "returned" ]
  /\ Goto(w, "done")
  /\ hist' = [ hist EXCEPT !.lastBuild = "ok", !.built = loc[w].corpus_data ]
  /\ UNCHANGED << corpus, corpus_metadata, corpus_embeddings, docs, emb_file,
                  started, fixed >>

\* lines 229-230: open or json.dump raises; the file is as it was, or cut
BuildSaveCorpusRaises(w) ==
  /\ At(w, "b_savejson")
  /\ started < Budget
  /\ started' = started + 1
  /\ corpus_file' \in { corpus_file, CorruptFile }
  /\ loc' = [ loc EXCEPT ![w].fault = "save_corpus",
                             ![w].outcome = "raised" ]
  /\ Goto(w, "done")
  /\ hist' = [ hist EXCEPT !.lastBuild = "failed" ]
  /\ UNCHANGED << corpus, corpus_metadata, corpus_embeddings, docs, emb_file,
                  fixed >>

\* ------------------------------------------------------- reset_documents
\* app.py clears the index and then empties the folder; admin_routes.py
\* empties the folder and then clears the index.
reset_documents(w, variant) ==
  /\ Free(w) /\ ~Loading /\ started < Budget
  /\ started' = started + 1
  /\ loc' = [ loc EXCEPT ![w] = [ WriterIdle EXCEPT !.op = variant ] ]
  /\ Goto(w, IF variant = "reset_app" THEN "c_reset" ELSE "x_docs")
  /\ UNCHANGED << corpus, corpus_metadata, corpus_embeddings, docs, emb_file,
                  corpus_file, hist, fixed >>

\* os.remove of every file of knowledge_base/docs
ResetRemoveDocs(w) ==
  /\ At(w, "x_docs")
  /\ docs' = [ f \in FileNames |-> Absent ]
  /\ Goto(w, IF loc[w].op = "reset_admin" THEN "c_reset" ELSE "done")
  /\ loc' = [ loc EXCEPT ![w].outcome =
                IF loc[w].op = "reset_admin" THEN @ ELSE "returned" ]
  /\ UNCHANGED << corpus, corpus_metadata, corpus_embeddings, emb_file,
                  corpus_file, hist, started, fixed >>

\* ------------------------------------------------------------ clear_index
\* line 302
ClearReset(w) ==
  /\ At(w, "c_reset")
  /\ corpus' = << >>
  /\ corpus_metadata' = << >>
  /\ corpus_embeddings' = NoneArray
  /\ Goto(w, "c_remove")
  /\ hist' = [ hist EXCEPT !.lastBuild = "none", !.sinceClear = FALSE,
                           !.loaded = FALSE,
                           !.hadIndex = (corpus # << >>) ]
  /\ UNCHANGED << docs, emb_file, corpus_file, loc, started, fixed >>

\* lines 303-310
ClearRemoveFiles(w) ==
  /\ At(w, "c_remove")
  /\ emb_file' = RemoveIndexFile(emb_file)
  /\ corpus_file' = RemoveIndexFile(corpus_file)
  /\ Goto(w, IF loc[w].op = "reset_app" THEN "x_docs" ELSE "done")
  /\ loc' = [ loc EXCEPT ![w].outcome =
                IF loc[w].op = "reset_app" THEN @ ELSE "returned" ]
  /\ hist' = [ hist EXCEPT !.sinceClear = TRUE ]
  /\ UNCHANGED << corpus, corpus_metadata, corpus_embeddings, docs, started, fixed >>

\* ------------------------------------------------------------- load_index
\* The process starts again: the globals are as lines 20-22 leave them, and
\* app.py line 24 calls load_index() before any request is served.
Restart(w) ==
  /\ \A t \in Threads : pc[t] = "idle"
  /\ Free(w)
  /\ started < Budget
  /\ started' = started + 1
  /\ corpus' = << >>
  /\ corpus_metadata' = << >>
  /\ corpus_embeddings' = NoneArray
  /\ loc' = [ loc EXCEPT ![w] = [ WriterIdle EXCEPT !.op = "load" ] ]
  /\ Goto(w, "l_exists")
  /\ UNCHANGED << docs, emb_file, corpus_file, hist, fixed >>

\* line 240
LoadExists(w) ==
  /\ At(w, "l_exists")
  /\ LET both == emb_file.st # "absent" /\ corpus_file.st # "absent" IN
     /\ Goto(w, IF both THEN "l_emb" ELSE "done")
     /\ loc' = [ loc EXCEPT ![w].outcome = IF both THEN @ ELSE "returned" ]
     /\ hist' = [ hist EXCEPT !.loaded = IF both THEN @ ELSE TRUE ]
  /\ UNCHANGED << corpus, corpus_metadata, corpus_embeddings, docs, emb_file,
                  corpus_file, started, fixed >>

\* line 241; np.load raises on a file that is no array, and line 249
\* catches it
LoadEmbeddings(w) ==
  /\ At(w, "l_emb")
  /\ IF emb_file.st = "ok"
     THEN /\ corpus_embeddings' = NpLoad(emb_file)
          /\ Goto(w, "l_json")
          /\ UNCHANGED << loc, hist >>
     ELSE /\ loc' = [ loc EXCEPT ![w].outcome = "returned" ]
          /\ Goto(w, "done")
          /\ hist' = [ hist EXCEPT !.loaded = TRUE ]
          /\ UNCHANGED corpus_embeddings
  /\ UNCHANGED << corpus, corpus_metadata, docs, emb_file, corpus_file,
                  started, fixed >>

\* lines 242-243; json.load raises on a cut file, and line 249 catches it
LoadCorpusFile(w) ==
  /\ At(w, "l_json")
  /\ IF corpus_file.st = "ok"
     THEN /\ loc' = [ loc EXCEPT ![w].corpus_data = JsonLoad(corpus_file) ]
          /\ Goto(w, "l_corpus")
          /\ UNCHANGED hist
     ELSE /\ loc' = [ loc EXCEPT ![w].outcome = "returned" ]
          /\ Goto(w, "done")
          /\ hist' = [ hist EXCEPT !.loaded = TRUE ]
  /\ UNCHANGED << corpus, corpus_metadata, corpus_embeddings, docs, emb_file,
                  corpus_file, started, fixed >>

\* line 244
LoadSetCorpus(w) ==
  /\ At(w, "l_corpus")
  /\ corpus' = Texts(loc[w].corpus_data)
  /\ Goto(w, "l_meta")
  /\ UNCHANGED << corpus_metadata, corpus_embeddings, docs, emb_file,
                  corpus_file, loc, hist, started, fixed >>

\* lines 245-246
LoadSetMeta(w) ==
  /\ At(w, "l_meta")
  /\ corpus_metadata' = Metas(loc[w].corpus_data)
  /\ loc' = [ loc EXCEPT ![w].outcome = "returned" ]
  /\ Goto(w, "done")
  /\ hist' = [ hist EXCEPT !.loaded = TRUE ]
  /\ UNCHANGED << corpus, corpus_embeddings, docs, emb_file, corpus_file,
                  started, fixed >>

\* ------------------------------------------------ retrieve_relevant_chunks
Queries == { << "library", "hours" >>, << "staff", "email" >> }
TopKs == (1..MaxTopK) \cup { DEFAULT_TOP_K, CONTACT_TOP_K }

retrieve_relevant_chunks(r, query, top_k) ==
  /\ Free(r) /\ ~Loading /\ started < Budget
  /\ started' = started + 1
  /\ loc' = [ loc EXCEPT ![r] = [ ReaderIdle EXCEPT !.query = query,
                                                     !.top_k = top_k ] ]
  /\ Goto(r, "r_check")
  /\ UNCHANGED << corpus, corpus_metadata, corpus_embeddings, docs, emb_file,
                  corpus_file, hist, fixed >>

\* lines 263-265
RetrieveCheck(r) ==
  /\ At(r, "r_check")
  /\ IF corpus_embeddings.none \/ Len(corpus) = 0
     THEN /\ loc' = [ loc EXCEPT ![r].result = << >>,
                                 ![r].outcome = "returned" ]
          /\ Goto(r, "done")
     ELSE /\ UNCHANGED loc
          /\ Goto(r, "r_sims")
  /\ UNCHANGED << corpus, corpus_metadata, corpus_embeddings, docs, emb_file,
                  corpus_file, hist, started, fixed >>

\* lines 268-276; the norm of None, or of an array without rows, raises
RetrieveSims(r) ==
  /\ At(r, "r_sims")
  /\ IF corpus_embeddings.none \/ corpus_embeddings.rows = << >>
     THEN /\ loc' = [ loc EXCEPT ![r].outcome = "raised" ]
          /\ Goto(r, "done")
     ELSE /\ loc' = [ loc EXCEPT
                ![r].contact = AnyWordIn(RETRIEVER_CONTACT_WORDS, loc[r].query),
                ![r].used_emb = corpus_embeddings,
                ![r].sims = cosine_similarity(EmbedQuery(loc[r].query),
                                              corpus_embeddings.rows) ]
          /\ Goto(r, "r_boost")
  /\ UNCHANGED << corpus, corpus_metadata, corpus_embeddings, docs, emb_file,
                  corpus_file, hist, started, fixed >>

\* lines 279-283
RetrieveBoost(r) ==
  /\ At(r, "r_boost")
  /\ IF ~loc[r].contact
     THEN /\ UNCHANGED loc
          /\ Goto(r, "r_results")
     ELSE IF BoostRaises(loc[r].sims, corpus_metadata)
          THEN /\ loc' = [ loc EXCEPT ![r].outcome = "raised" ]
               /\ Goto(r, "done")
          ELSE /\ loc' = [ loc EXCEPT
                     ![r].used_meta = corpus_metadata,
                     ![r].sims = BoostSims(loc[r].sims, corpus_metadata) ]
               /\ Goto(r, "r_results")
  /\ UNCHANGED << corpus, corpus_metadata, corpus_embeddings, docs, emb_file,
                  corpus_file, hist, started, fixed >>

\* lines 286-294; corpus[i] past the end of the list raises
RetrieveResults(r) ==
  /\ At(r, "r_results")
  /\ \E order \in ArgSorts(loc[r].sims) :
       LET top == TopIndices(order, loc[r].top_k) IN
       IF \E k \in 1..Len(top) : top[k] > Len(corpus)
       THEN loc' = [ loc EXCEPT ![r].outcome = "raised" ]
       ELSE loc' = [ loc EXCEPT ![r].used_corpus = corpus,
                                ![r].result = Results(corpus, loc[r].sims, top),
                                ![r].outcome = "returned" ]
  /\ Goto(r, "done")
  /\ UNCHANGED << corpus, corpus_metadata, corpus_embeddings, docs, emb_file,
                  corpus_file, hist, started, fixed >>

\* The request is answered (or has failed) and its thread ends.
Return(t) ==
  /\ At(t, "done")
  /\ loc' = [ loc EXCEPT ![t] = IF t \in Writers THEN WriterIdle ELSE ReaderIdle ]
  /\ Goto(t, "idle")
  /\ UNCHANGED << corpus, corpus_metadata, corpus_embeddings, docs, emb_file,
                  corpus_file, hist, started, fixed >>

\* ------------------------------------------------------- specifications
Next ==
  \/ \E w \in Writers, u \in Uploads : upload_documents(w, u)
  \/ \E w \in Writers : BuildScan(w)
  \/ \E w \in Writers : BuildNoText(w)
  \/ \E w \in Writers : BuildSetCorpus(w)
  \/ \E w \in Writers : BuildSetMeta(w)
  \/ \E w \in Writers : BuildLoopEnter(w)
  \/ \E w \in Writers : BuildEmbedBatch(w)
  \/ \E w \in Writers : BuildEmbedRaises(w)
  \/ \E w \in Writers : BuildSetEmbeddings(w)
  \/ \E w \in Writers : BuildSaveEmbeddings(w)
  \/ \E w \in Writers : BuildSaveEmbeddingsRaises(w)
  \/ \E w \in Writers : BuildSaveCorpus(w)
  \/ \E w \in Writers : BuildSaveCorpusRaises(w)
  \/ \E w \in Writers, variant \in { "reset_app", "reset_admin" } :
       reset_documents(w, variant)
  \/ \E w \in Writers : ResetRemoveDocs(w)
  \/ \E w \in Writers : ClearReset(w)
  \/ \E w \in Writers : ClearRemoveFiles(w)
  \/ \E w \in Writers : Restart(w)
  \/ \E w \in Writers : LoadExists(w)
  \/ \E w \in Writers : LoadEmbeddings(w)
  \/ \E w \in Writers : LoadCorpusFile(w)
  \/ \E w \in Writers : LoadSetCorpus(w)
  \/ \E w \in Writers : LoadSetMeta(w)
  \/ \E r \in Readers, q \in Queries, k \in TopKs :
       retrieve_relevant_chunks(r, q, k)
  \/ \E r \in Readers : RetrieveCheck(r)
  \/ \E r \in Readers : RetrieveSims(r)
  \/ \E r \in Readers : RetrieveBoost(r)
  \/ \E r \in Readers : RetrieveResults(r)
  \/ \E t \in Threads : Return(t)

\* Requests served concurrently, a thread each.
\* The function-level specifications are not running.
OthersIdle ==
  rk = RankIdle /\ rw = RewriteIdle /\ ch = ChatIdle /\ ck = ChunkIdle

ThreadedInit == Init /\ threaded /\ OthersIdle
Spec == ThreadedInit /\ [][Next]_vars

\* The same server run with threaded=False: one request at a time.
SeqInit == Init /\ ~threaded /\ OthersIdle
SeqSpec == SeqInit /\ [][Next]_vars

\* ------------------------------------------------------ one build alone
\* A build of a folder that mixes files that read well with files that do
\* not: an upload request has stored its files and is about to call
\* load_documents_and_build_index on an empty index.
FolderContents(f) ==
  CASE f = << "guide", ".txt" >> -> { Absent, "guide", "note", "unreadable" }
    [] f = << "staff", ".CSV" >> -> { Absent, "staff", "unreadable" }
    [] f = << "tool", ".exe" >>  -> { Absent, "guide" }
    [] f = << "scan", ".pdf" >>  -> { Absent, "scan", "scan_damaged", "unreadable" }

Folders == { d \in [FileNames -> { Absent, "guide", "note", "staff", "scan",
                                   "scan_damaged", "unreadable" }] :
               \A f \in FileNames : d[f] \in FolderContents(f) }

FirstWriter == CHOOSE w \in Writers : \A u \in Writers : w <= u

ScanInit ==
  /\ corpus = << >>
  /\ corpus_metadata = << >>
  /\ corpus_embeddings = NoneArray
  /\ docs \in Folders
  /\ emb_file = NoFile
  /\ corpus_file = NoFile
  /\ pc = [ t \in Threads |-> IF t = FirstWriter THEN "b_enter" ELSE "idle" ]
  /\ loc = [ t \in Threads |->
               IF t = FirstWriter THEN [ WriterIdle EXCEPT !.op = "upload" ]
               ELSE IF t \in Writers THEN WriterIdle ELSE ReaderIdle ]
  /\ hist = HistInit
  /\ threaded = FALSE
  /\ started = 0
  /\ OthersIdle

ScanNext ==
  \/ BuildScan(FirstWriter)
  \/ BuildNoText(FirstWriter)
  \/ BuildSetCorpus(FirstWriter)
  \/ BuildSetMeta(FirstWriter)
  \/ BuildLoopEnter(FirstWriter)
  \/ BuildEmbedBatch(FirstWriter)
  \/ BuildSetEmbeddings(FirstWriter)
  \/ BuildSaveEmbeddings(FirstWriter)
  \/ BuildSaveCorpus(FirstWriter)
ScanSpec == ScanInit /\ [][ScanNext]_vars

\* ----------------------------------------------------------- ranking
\* Lines 268-294 of retrieve_relevant_chunks on a ready index, as a function
\* of the query, top_k, the base similarities of line 276 and the contact
\* flags of the metadata. The chunk texts are their positions in the corpus.
BaseScores == { -500, 0, 500 }
FlagKinds ==
  { [ contains_email |-> FALSE, contains_phone |-> FALSE ],
    [ contains_email |-> TRUE,  contains_phone |-> FALSE ],
    [ contains_email |-> FALSE, contains_phone |-> TRUE ] }
RankQueries ==
  { << "library", "hours" >>, << "staff", "email" >>, << "Physics", "staff" >> }

RankInputs ==
  { [ st |-> "in", query |-> q, top_k |-> k, base |-> b, metas |-> m,
      contact |-> FALSE, sims |-> << >>, order |-> << >>, result |-> << >> ] :
      q \in RankQueries, k \in TopKs,
      b \in UNION { [1..n -> BaseScores] : n \in 1..MaxChunks },
      m \in UNION { [1..n -> FlagKinds] : n \in 1..MaxChunks } }

RankInit ==
  /\ Init /\ ~threaded /\ rw = RewriteIdle /\ ch = ChatIdle /\ ck = ChunkIdle
  /\ rk \in { i \in RankInputs : Len(i.base) = Len(i.metas) }

\* lines 268-283
RankScore ==
  /\ rk.st = "in"
  /\ LET contact == AnyWordIn(RETRIEVER_CONTACT_WORDS, rk.query) IN
     rk' = [ rk EXCEPT !.st = "scored",
                       !.contact = contact,
                       !.sims = IF contact /\ rk.metas # << >>
                                THEN BoostSims(rk.base, rk.metas)
                                ELSE rk.base ]
  /\ UNCHANGED << indexVars, rw, ch, ck >>

\* lines 286-294
RankSelect ==
  /\ rk.st = "scored"
  /\ \E order \in ArgSorts(rk.sims) :
       rk' = [ rk EXCEPT
                 !.st = "out",
                 !.order = order,
                 !.result = Results([ k \in 1..Len(rk.sims) |-> k ], rk.sims,
                                    TopIndices(order, rk.top_k)) ]
  /\ UNCHANGED << indexVars, rw, ch, ck >>

RankNext == RankScore \/ RankSelect
RankSpec == RankInit /\ [][RankNext]_vars

\* ------------------------------------------------------ query rewriting
\* Lines 35-75 of generate_answer: from the chat history to the query and
\* the top_k handed to retrieve_relevant_chunks.
FOLLOWUP_WORDS ==
  { "his", "her", "their", "email", "contact", "phone", "number", "address",
    "it", "that", "ph" }
GENERATOR_CONTACT_WORDS ==
  { "email", "contact", "phone", "mobile", "number", "address", "reach",
    "call", "ph" }
SURNAMES == { "Bandh", "Zargar", "Dar", "Shah", "Ahmad", "Khan", "Bhat" }

\* The words of the model that hold a character outside \w.
NonWordTokens == { "Dr.", "what's", "phone?" }
Wordy(token) == token \notin NonWordTokens

\* A surname that any word passes for.
SurnameInAny(token) == IF Wordy(token) THEN token ELSE ""

\* The alternative of (?:Bandh|...|Bhat) matched at the start of a word, ""
\* if none. No word of the model goes on after a listed surname.
SurnameIn(token) == IF token \in SURNAMES THEN token ELSE ""

\* The ends of the matches of  Dr\.\s+[\w\s]+?(?:\s+(?:surname))  that start
\* at word i: a surname at the start of a later word, at least one word in
\* between, and every word in between made of \w characters.
MatchEnds(content, i) ==
  { j \in (i + 2)..Len(content) :
      /\ content[i] = "Dr."
      /\ SurnameIn(content[j]) # ""
      /\ \A k \in (i + 1)..(j - 1) : Wordy(content[k]) }

SetMin(S) == CHOOSE x \in S : \A y \in S : x <= y

\* names[0] of re.findall, << >> if names is empty: the leftmost match, the
\* lazy quantifier stopping at the first surname; the title is in the match.
FirstName(content) ==
  LET starts == { i \in 1..Len(content) : MatchEnds(content, i) # { } } IN
  IF starts = { } THEN << >>
  ELSE LET i == SetMin(starts)
           j == SetMin(MatchEnds(content, i))
       IN  SubSeq(content, i, j - 1) \o << SurnameIn(content[j]) >>

\* A scan over every earlier turn.
WindowWhole(history) == 1..(Len(history) - 1)

\* range(len(history) - 2, max(len(history) - 8, -1), -1), as positions
\* counted from 1.
Window(history) ==
  { i \in 1..(Len(history) - 1) : i >= Len(history) - 6 }

is_followup(user_message) ==
  Len(user_message) <= 8 /\ AnyWordIn(FOLLOWUP_WORDS, user_message)

is_contact_query(user_message) ==
  AnyWordIn(GENERATOR_CONTACT_WORDS, user_message)

\* lines 44-63
query_for_retrieval(history, user_message) ==
  LET named == { i \in Window(history) : FirstName(history[i].content) # << >> }
  IN  IF Len(history) >= 2 /\ is_followup(user_message) /\ named # { }
      THEN LET i == CHOOSE x \in named : \A y \in named : y <= x
           IN  FirstName(history[i].content) \o << "contact", "email", "phone" >>
      ELSE user_message

JaneMsg == << "Dr.", "Jane", "Smith", "teaches", "Physics" >>
ZargarMsg == << "ask", "Dr.", "Wasim", "Zargar" >>
HerPhoneMsg == << "what's", "her", "phone?" >>
Contents ==
  { JaneMsg, ZargarMsg, HerPhoneMsg,
    << >>,
    << "library", "hours" >>,
    << "her", "address" >>,
    << "tell", "me", "about", "her", "phone", "and", "the", "library", "hours" >> }
Turns == [ role : { "user", "assistant" }, content : Contents ]
Histories == UNION { [1..n -> Turns] : n \in 0..MaxHistory }

RewriteInit ==
  /\ Init /\ ~threaded /\ rk = RankIdle /\ ch = ChatIdle /\ ck = ChunkIdle
  /\ \E history \in Histories :
       rw = [ st |-> "in", history |-> history, user_message |-> << >>,
              query |-> << >>, top_k |-> 0, reply |-> "none" ]

\* lines 35-41
RewriteValidate ==
  /\ rw.st = "in"
  /\ LET history == rw.history
         user_message ==
           IF history # << >> /\ history[Len(history)].role = "user"
           THEN history[Len(history)].content ELSE << >>
     IN  rw' = IF history = << >>
               THEN [ rw EXCEPT !.st = "returned",
                                !.reply = "Invalid chat history." ]
               ELSE IF user_message = << >>
               THEN [ rw EXCEPT !.st = "returned",
                                !.reply = "Please ask a valid question." ]
               ELSE [ rw EXCEPT !.st = "rewrite",
                                !.user_message = user_message ]
  /\ UNCHANGED << indexVars, rk, ch, ck >>

\* lines 44-63
RewriteFollowup ==
  /\ rw.st = "rewrite"
  /\ rw' = [ rw EXCEPT
               !.st = "top_k",
               !.query = query_for_retrieval(rw.history, rw.user_message) ]
  /\ UNCHANGED << indexVars, rk, ch, ck >>

\* lines 66-75
RewriteTopK ==
  /\ rw.st = "top_k"
  /\ rw' = [ rw EXCEPT
               !.st = "retrieve",
               !.top_k = IF is_contact_query(rw.user_message)
                         THEN CONTACT_TOP_K ELSE DEFAULT_TOP_K ]
  /\ UNCHANGED << indexVars, rk, ch, ck >>

RewriteNext == RewriteValidate \/ RewriteFollowup \/ RewriteTopK
RewriteSpec == RewriteInit /\ [][RewriteNext]_vars

\* The rewriting on long histories: the turns before the last one name a
\* person or not, the last one is a follow-up or not.
KhanMsg == << "Dr.", "Irfan", "Khan" >>
PriorContents == { ZargarMsg, KhanMsg, << "library", "hours" >> }
LastContents == { HerPhoneMsg, << "library", "hours" >> }
LongHistories ==
  { prior \o << [ role |-> "user", content |-> last ] >> :
      prior \in UNION { [1..n -> [ role : { "user" }, content : PriorContents ]] :
                          n \in 0..(MaxWindowTurns - 1) },
      last \in LastContents }

WindowInit ==
  /\ Init /\ ~threaded /\ rk = RankIdle /\ ch = ChatIdle /\ ck = ChunkIdle
  /\ \E history \in LongHistories :
       rw = [ st |-> "in", history |-> history, user_message |-> << >>,
              query |-> << >>, top_k |-> 0, reply |-> "none" ]

WindowSpec == WindowInit /\ [][RewriteNext]_vars

\* ----------------------------------------------------------------- chat
\* POST /user/chat of user_routes.py: the route, then generate_answer with
\* its two collaborators, the embedder (inside retrieve_relevant_chunks) and
\* the generation client. A turn is a JSON object; it may lack "role" or
\* "content" (the docstring of the route names the field "message").
ChatContents ==
  { HerPhoneMsg, ZargarMsg, << >>, << "library", "hours" >>,
    << "her", "address" >>, << "her", "office" >> }
ChatTurns ==
  [ role : { "user", "assistant" }, content : ChatContents ]
    \cup { [ role |-> "user" ],
           [ content |-> HerPhoneMsg ],
           [ role |-> "user", message |-> HerPhoneMsg ] }

\* The request bodies: no JSON body, the JSON value null, or a JSON object
\* whose "history" is missing, a string, or a list of turns.
ChatBodies ==
  { [ kind |-> k, history |-> "none", turns |-> << >> ] : k \in { "absent", "null" } }
    \cup { [ kind |-> "object", history |-> h, turns |-> << >> ] :
             h \in { "missing", "string" } }
    \cup { [ kind |-> "object", history |-> "list", turns |-> t ] :
             t \in UNION { [1..n -> ChatTurns] : n \in 0..MaxChatTurns } }

\* The index a chat request finds: none, or the one built from guide.txt and
\* staff.CSV.
ChatCorpusData ==
  { << >>,
    FolderEntries([ f \in FileNames |->
                      CASE f = << "guide", ".txt" >> -> "guide"
                        [] f = << "staff", ".CSV" >> -> "staff"
                        [] OTHER -> Absent ],
                  << << "guide", ".txt" >>, << "staff", ".CSV" >> >>) }

ChatInit ==
  /\ \E cd \in ChatCorpusData :
       /\ corpus = Texts(cd)
       /\ corpus_metadata = Metas(cd)
       /\ corpus_embeddings = IF cd = << >> THEN NoneArray
                              ELSE Array(Embed(Texts(cd)))
  /\ docs = [ f \in FileNames |-> Absent ]
  /\ emb_file = NoFile
  /\ corpus_file = NoFile
  /\ pc = [ t \in Threads |-> "idle" ]
  /\ loc = [ t \in Threads |-> IF t \in Writers THEN WriterIdle ELSE ReaderIdle ]
  /\ hist = HistInit
  /\ threaded = FALSE
  /\ started = 0
  /\ rk = RankIdle /\ rw = RewriteIdle /\ ck = ChunkIdle
  /\ \E body \in ChatBodies :
       ch = [ st |-> "route", body |-> body, history |-> << >>,
              user_message |-> << >>, query |-> << >>, top_k |-> 0,
              boost |-> FALSE, context |-> << >>, reply |-> "none",
              outcome |-> "none" ]

ChatFrame == UNCHANGED << indexVars, rk, rw, ck >>

ChatReplies(reply) == [ ch EXCEPT !.st = "done", !.reply = reply, !.outcome = "replied" ]
ChatRaises(error) == [ ch EXCEPT !.st = "done", !.outcome = error ]

\* user_routes.py lines 19-24. request.get_json() without a JSON body
\* aborts with an HTTP error or returns None, depending on the Flask version
\* (then data.get raises like it does for null).
chat ==
  /\ ch.st = "route"
  /\ LET body == ch.body IN
     CASE body.kind = "absent" ->
            \E error \in { "BadRequest", "AttributeError" } : ch' = ChatRaises(error)
       [] body.kind = "null" -> ch' = ChatRaises("AttributeError")
       [] OTHER ->
            IF body.history # "list" \/ body.turns = << >>
            THEN ch' = ChatReplies("Please send a valid chat history.")
            ELSE ch' = [ ch EXCEPT !.st = "validate", !.history = body.turns ]
  /\ ChatFrame

Has(turn, field) == field \in DOMAIN turn

\* rag_generator.py lines 35-41
ChatValidate ==
  /\ ch.st = "validate"
  /\ LET history == ch.history
         last == history[Len(history)]
     IN  IF history = << >>
         THEN ch' = ChatReplies("Invalid chat history.")
         ELSE IF ~Has(last, "role") \/ (last.role = "user" /\ ~Has(last, "content"))
         THEN ch' = ChatRaises("KeyError")
         ELSE LET user_message == IF last.role = "user" THEN last.content ELSE << >>
              IN  IF user_message = << >>
                  THEN ch' = ChatReplies("Please ask a valid question.")
                  ELSE ch' = [ ch EXCEPT !.st = "rewrite",
                                         !.user_message = user_message ]
  /\ ChatFrame

\* The entries at which the scan of lines 56-63 ends: a turn without
\* "content" (line 57 raises) or a turn with a name (line 63 breaks).
ScanStops(history) ==
  { i \in Window(history) :
      ~Has(history[i], "content") \/ FirstName(history[i].content) # << >> }

\* rag_generator.py lines 44-63
ChatRewrite ==
  /\ ch.st = "rewrite"
  /\ LET history == ch.history
         stops == ScanStops(history)
     IN  IF Len(history) >= 2 /\ is_followup(ch.user_message) /\ stops # { }
         THEN LET i == CHOOSE x \in stops : \A y \in stops : y <= x IN
              IF ~Has(history[i], "content")
              THEN ch' = ChatRaises("KeyError")
              ELSE ch' = [ ch EXCEPT
                             !.st = "retrieve",
                             !.query = FirstName(history[i].content)
                                         \o << "contact", "email", "phone" >> ]
         ELSE ch' = [ ch EXCEPT !.st = "retrieve", !.query = ch.user_message ]
  /\ ChatFrame

ChatTopK == IF is_contact_query(ch.user_message) THEN CONTACT_TOP_K ELSE DEFAULT_TOP_K

\* rag_generator.py lines 66-76 with rag_retriever.py lines 260-294, the
\* embedder answering.
ChatRetrieve ==
  /\ ch.st = "retrieve"
  /\ IF corpus_embeddings.none \/ corpus = << >>
     THEN ch' = [ ch EXCEPT !.st = "generate", !.top_k = ChatTopK, !.context = << >> ]
     ELSE LET base == cosine_similarity(EmbedQuery(ch.query), corpus_embeddings.rows)
              boost == AnyWordIn(RETRIEVER_CONTACT_WORDS, ch.query)
                         /\ corpus_metadata # << >>
              sims == IF boost THEN BoostSims(base, corpus_metadata) ELSE base
          IN  \E order \in ArgSorts(sims) :
                ch' = [ ch EXCEPT
                          !.st = "generate",
                          !.top_k = ChatTopK,
                          !.boost = boost,
                          !.context = Results(corpus, sims, TopIndices(order, ChatTopK)) ]
  /\ ChatFrame

\* rag_retriever.py line 275: embed_model.embed raises; nothing between it
\* and the route catches.
ChatEmbedRaises ==
  /\ ch.st = "retrieve"
  /\ ~(corpus_embeddings.none \/ corpus = << >>)
  /\ ch' = ChatRaises("EmbedError")
  /\ ChatFrame

\* rag_generator.py lines 196-224 and user_routes.py line 27
ChatGenerate ==
  /\ ch.st = "generate"
  /\ ch' = ChatReplies("assistant_reply")
  /\ ChatFrame

\* rag_generator.py lines 207-222: the client raises, the except clause
\* turns it into the reply.
ChatGenerateRaises ==
  /\ ch.st = "generate"
  /\ ch' = ChatReplies("Error generating answer")
  /\ ChatFrame

ChatNext ==
  \/ chat
  \/ ChatValidate
  \/ ChatRewrite
  \/ ChatRetrieve
  \/ ChatEmbedRaises
  \/ ChatGenerate
  \/ ChatGenerateRaises
ChatSpec == ChatInit /\ [][ChatNext]_vars

\* ------------------------------------------------------------- chunking
\* smart_chunk_text and its splitters on the lines of a page text. A line is
\* its kind and its length: a sentence ending in a full stop ("plain"), a
\* bulleted item ("bullet", the length is that of the item after its "- "),
\* a heading, a "Faculty Member 1" line ("marker") or a blank line. A chunk
\* is its length; last_packed marks the last chunk of a sentence packing.
LineLens == { 20, 45, 1300 }
Lines ==
  [ kind : { "plain", "bullet", "heading" }, len : LineLens ]
    \cup { [ kind |-> "blank", len |-> 0 ], [ kind |-> "marker", len |-> 16 ] }

RawLen(l) == IF l.kind = "bullet" THEN l.len + 2 ELSE l.len

\* s.strip() on a sequence of lines: the blank lines at both ends go.
Strip(lines) ==
  LET nb == { i \in 1..Len(lines) : lines[i].kind # "blank" } IN
  IF nb = { } THEN << >>
  ELSE SubSeq(lines, CHOOSE i \in nb : \A j \in nb : i <= j,
                     CHOOSE i \in nb : \A j \in nb : j <= i)

RECURSIVE SumLen(_)
SumLen(lines) ==
  IF lines = << >> THEN 0 ELSE RawLen(Head(lines)) + SumLen(Tail(lines))

\* len(s.strip()) of the lines joined by "\n"
TextLen(lines) ==
  LET t == Strip(lines) IN
  IF t = << >> THEN 0 ELSE SumLen(t) + Len(t) - 1

\* re.split at the lines of a kind: the runs of lines between them.
RECURSIVE SplitOn(_, _)
SplitOn(lines, kind) ==
  IF lines = << >> THEN << << >> >>
  ELSE LET rest == SplitOn(Tail(lines), kind) IN
       IF Head(lines).kind = kind THEN << << >> >> \o rest
       ELSE << << Head(lines) >> \o Head(rest) >> \o Tail(rest)

\* lines 84-85: the length left when every run of whitespace, a run of blank
\* lines included, has become one blank.
normalize_whitespace(lines) ==
  LET words == SelectSeq(lines, LAMBDA l : l.kind # "blank") IN
  IF words = << >> THEN 0 ELSE SumLen(words) + Len(words) - 1

Whole(len) == [ len |-> len, last_packed |-> FALSE ]
WholeOf(parts) ==
  [ k \in 1..Len(parts) |-> Whole(normalize_whitespace(parts[k])) ]

\* lines 87-89
split_paragraphs(lines) ==
  SelectSeq(SplitOn(lines, "blank"), LAMBDA g : TextLen(g) > MIN_PART_CHARS)

\* lines 91-94; the texts of the model have no "full name" label
split_structured_records(lines) ==
  IF \E i \in 1..Len(lines) : lines[i].kind = "marker"
  THEN SelectSeq(SplitOn(lines, "marker"), LAMBDA g : TextLen(g) > MIN_CHUNK_CHARS)
  ELSE << >>

\* lines 106-119: the lengths of the entries of `out`
RECURSIVE BulletOut(_, _)
BulletOut(lines, buf) ==
  LET flushed == IF buf = << >> THEN << >> ELSE << SumLen(buf) + Len(buf) - 1 >> IN
  IF lines = << >> THEN flushed
  ELSE IF Head(lines).kind = "bullet"
       THEN BulletOut(Tail(lines),
                      Append(buf, [ kind |-> "plain", len |-> Head(lines).len ]))
       ELSE flushed \o << RawLen(Head(lines)) >> \o BulletOut(Tail(lines), << >>)

split_bulleted_lists(lines) ==
  SelectSeq(BulletOut(lines, << >>), LAMBDA n : n > MIN_PART_CHARS)

\* HEADING_RE matches a heading line and a "Faculty Member 1" line.
IsHeading(l) == l.kind \in { "heading", "marker" }

\* lines 122-131: the sections, each from a heading to the next
RECURSIVE Sections(_, _)
Sections(lines, buffer) ==
  IF lines = << >> THEN (IF buffer = << >> THEN << >> ELSE << buffer >>)
  ELSE IF IsHeading(Head(lines)) /\ buffer # << >>
       THEN << buffer >> \o Sections(Tail(lines), << Head(lines) >>)
       ELSE Sections(Tail(lines), Append(buffer, Head(lines)))

RECURSIVE SectionsOut(_)
SectionsOut(chunks) ==
  IF chunks = << >> THEN << >>
  ELSE (IF TextLen(Head(chunks)) > MAX_CHUNK_CHARS
        THEN split_paragraphs(Strip(Head(chunks)))
        ELSE << Head(chunks) >>) \o SectionsOut(Tail(chunks))

\* lines 121-139
split_by_headings(lines) ==
  SelectSeq(SectionsOut(Sections(lines, << >>)),
            LAMBDA g : TextLen(g) > MIN_PART_CHARS)

\* lines 144-153: the loop over the sentences and the last append
RECURSIVE Pack(_, _, _)
Pack(sents, current, chunks) ==
  IF sents = << >>
  THEN IF current > 0 /\ current >= MIN_CHUNK_CHARS
       THEN Append(chunks, current) ELSE chunks
  ELSE LET sent == Head(sents) IN
       IF current + sent + 1 <= MAX_CHUNK_CHARS
       THEN Pack(Tail(sents), IF current = 0 THEN sent ELSE current + 1 + sent, chunks)
       ELSE Pack(Tail(sents), sent,
                 IF current >= MIN_CHUNK_CHARS THEN Append(chunks, current) ELSE chunks)

\* lines 141-154: one sentence per line that is not blank; the lengths are
\* those after normalize_whitespace, which changes no packed chunk.
fallback_sentence_split(lines) ==
  LET sents == SelectSeq(lines, LAMBDA l : l.kind # "blank")
      packed == Pack([ k \in 1..Len(sents) |-> RawLen(sents[k]) ], 0, << >>)
      chunks == IF packed # << >> THEN packed
                ELSE IF TextLen(lines) <= MAX_CHUNK_CHARS
                THEN << normalize_whitespace(lines) >>
                ELSE << MAX_CHUNK_CHARS >>
  IN  [ k \in 1..Len(chunks) |->
          [ len |-> chunks[k], last_packed |-> k = Len(chunks) ] ]

RECURSIVE ParagraphChunks(_)
ParagraphChunks(paras) ==
  IF paras = << >> THEN << >>
  ELSE (IF TextLen(Head(paras)) > MAX_CHUNK_CHARS
        THEN fallback_sentence_split(Head(paras))
        ELSE << Whole(normalize_whitespace(Head(paras))) >>) \o ParagraphChunks(Tail(paras))

ChunkTexts == UNION { [1..n -> Lines] : n \in 1..MaxLines }

ChunkInit ==
  /\ Init /\ ~threaded /\ rk = RankIdle /\ rw = RewriteIdle /\ ch = ChatIdle
  /\ \E text \in ChunkTexts :
       ck = [ st |-> "in", text |-> text, strategy |-> "none", chunks |-> << >> ]

ChunkFrame == UNCHANGED << indexVars, rk, rw, ch >>

ChunkReturns(strategy, chunks) ==
  ck' = [ ck EXCEPT !.st = "out", !.strategy = strategy, !.chunks = chunks ]

HasBullet(lines) == \E i \in 1..Len(lines) : lines[i].kind = "bullet"
HasHeading(lines) == \E i \in 1..Len(lines) : IsHeading(lines[i])

\* lines 157-159
ChunkTooShort ==
  /\ ck.st = "in"
  /\ TextLen(ck.text) < MIN_CHUNK_CHARS
  /\ ChunkReturns("none", << >>)
  /\ ChunkFrame

\* lines 160-162
ChunkRecords ==
  /\ ck.st = "in"
  /\ TextLen(ck.text) >= MIN_CHUNK_CHARS
  /\ LET text == Strip(ck.text) IN
     /\ split_structured_records(text) # << >>
     /\ ChunkReturns("records", WholeOf(split_structured_records(text)))
  /\ ChunkFrame

\* lines 163-164
ChunkBullets ==
  /\ ck.st = "in"
  /\ TextLen(ck.text) >= MIN_CHUNK_CHARS
  /\ LET text == Strip(ck.text) IN
     /\ split_structured_records(text) = << >>
     /\ HasBullet(text)
     /\ ChunkReturns("bullets",
                     LET out == split_bulleted_lists(text) IN
                     [ k \in 1..Len(out) |-> Whole(out[k]) ])
  /\ ChunkFrame

\* lines 165-166
ChunkHeadings ==
  /\ ck.st = "in"
  /\ TextLen(ck.text) >= MIN_CHUNK_CHARS
  /\ LET text == Strip(ck.text) IN
     /\ split_structured_records(text) = << >>
     /\ ~HasBullet(text) /\ HasHeading(text)
     /\ ChunkReturns("headings", WholeOf(split_by_headings(text)))
  /\ ChunkFrame

\* lines 167-175
ChunkParagraphs ==
  /\ ck.st = "in"
  /\ TextLen(ck.text) >= MIN_CHUNK_CHARS
  /\ LET text == Strip(ck.text) IN
     /\ split_structured_records(text) = << >>
     /\ ~HasBullet(text) /\ ~HasHeading(text)
     /\ Len(split_paragraphs(text)) > 1
     /\ ChunkReturns("paragraphs", ParagraphChunks(split_paragraphs(text)))
  /\ ChunkFrame

\* line 176
ChunkSentences ==
  /\ ck.st = "in"
  /\ TextLen(ck.text) >= MIN_CHUNK_CHARS
  /\ LET text == Strip(ck.text) IN
     /\ split_structured_records(text) = << >>
     /\ ~HasBullet(text) /\ ~HasHeading(text)
     /\ Len(split_paragraphs(text)) <= 1
     /\ ChunkReturns("sentences", fallback_sentence_split(text))
  /\ ChunkFrame

ChunkNext ==
  \/ ChunkTooShort
  \/ ChunkRecords
  \/ ChunkBullets
  \/ ChunkHeadings
  \/ ChunkParagraphs
  \/ ChunkSentences
ChunkSpec == ChunkInit /\ [][ChunkNext]_vars

\* ------------------------------------------------------------- claims
BuildSection ==
  { "b_enter", "b_notext", "b_corpus", "b_meta", "b_loop", "b_embed",
    "b_setemb", "b_saveemb", "b_savejson" }
ClearSection == { "c_reset", "c_remove" }

IndexEmpty == corpus = << >> /\ corpus_embeddings.none
IndexReady ==
  /\ ~corpus_embeddings.none
  /\ Len(corpus) > 0
  /\ Len(corpus) = Len(corpus_metadata)
  /\ Len(corpus) = Len(corpus_embeddings.rows)

\* C1: in every state a reader can observe, the intermediate steps of a
\* running build, load or clear included, the live index is either empty
\* (no chunk, no embedding matrix) or ready (as many chunks as metadata
\* entries as embedding rows).
C1_NoTornIndex == IndexEmpty \/ IndexReady

\* The metadata entry m is the one the build derives from the chunk text.
MetaDescribes(m, text) ==
  m = MakeMeta(m.source_file, m.page, m.chunk_id[2], text)

\* What a retrieve call read is one generation of the index: the vectors
\* are those of the texts, row by row, and (when it read the metadata) the
\* metadata are those of the texts.
OneGeneration(l) ==
  /\ Len(l.used_emb.rows) = Len(l.used_corpus)
  /\ \A k \in 1..Len(l.used_corpus) :
       l.used_emb.rows[k] = EmbedOne(l.used_corpus[k])
  /\ l.contact =>
       /\ Len(l.used_meta) = Len(l.used_corpus)
       /\ \A k \in 1..Len(l.used_corpus) :
            MetaDescribes(l.used_meta[k], l.used_corpus[k])

\* C2: a retrieve call that runs while a build or a clear runs never fails
\* because the index changed between its reads, and computes its result from
\* the texts, metadata and vectors of one index generation, never from a mix.
C2_RetrieveReadsOneGeneration ==
  \A r \in Readers :
    pc[r] = "done" =>
      /\ loc[r].outcome = "returned"
      /\ loc[r].result # << >> => OneGeneration(loc[r])

\* C3: writers are mutually exclusive: at no time are two executions of
\* load_documents_and_build_index or clear_index in progress at once.
C3_WritersExclusive ==
  Cardinality({ w \in Writers : pc[w] \in BuildSection \cup ClearSection }) <= 1

C5_EmptyBuildPersistsEmpty ==
  \A w \in Writers :
    (pc[w] = "done" /\ loc[w].op = "load" /\ hist.lastBuild = "empty") =>
      corpus = << >>

\* C6: round trip: after a build that produced at least one chunk and
\* persisted it, load_index() into a fresh index yields the same chunk texts
\* and the same metadata in the same order, and one embedding row per chunk.
C6_RoundTrip ==
  \A w \in Writers :
    (pc[w] = "done" /\ loc[w].op = "load" /\ hist.lastBuild = "ok") =>
      /\ corpus = Texts(hist.built)
      /\ corpus_metadata = Metas(hist.built)
      /\ ~corpus_embeddings.none
      /\ Len(corpus_embeddings.rows) = Len(hist.built)

\* load_index() has run in a fresh process after a build of three chunks
\* from two files.
C6_Witness ==
  \E w \in Writers :
    /\ pc[w] = "done" /\ loc[w].op = "load" /\ hist.lastBuild = "ok"
    /\ Len(hist.built) = 3
    /\ Len(corpus) = 3

\* C7: when writing the persisted files fails after the in-memory build
\* succeeded, no unhandled fault leaves the build, and the in-memory index
\* holds the newly built content and is ready.
C7_SaveFailureContained ==
  \A w \in Writers :
    (pc[w] = "done" /\ loc[w].fault \in { "save_embeddings", "save_corpus" }) =>
      /\ loc[w].outcome = "returned"
      /\ corpus = Texts(loc[w].corpus_data)
      /\ corpus_metadata = Metas(loc[w].corpus_data)
      /\ IndexReady

\* The place of chunk i in the ranking (1 is the best).
PlaceOf(order, i) == CHOOSE k \in 1..Len(order) : order[k] = i

Returned(result) == { result[k].text : k \in 1..Len(result) }

\* C8: on a ready index of n chunks retrieve returns exactly min(top_k, n)
\* chunks in non-increasing order of score, no omitted chunk scores higher
\* than a returned one, and among chunks of equal score the one inserted
\* earlier ranks first and is the one kept at the top_k cut.
C8_StableTopK ==
  rk.st = "out" =>
    LET n == Len(rk.sims)
        res == rk.result
    IN  /\ Len(res) = Min(rk.top_k, n)
        /\ \A k \in 1..(Len(res) - 1) : res[k].similarity >= res[k + 1].similarity
        /\ \A i \in (1..n) \ Returned(res) :
             \A k \in 1..Len(res) : rk.sims[i] <= res[k].similarity
        /\ \A i, j \in 1..n :
             (i < j /\ rk.sims[i] = rk.sims[j]) =>
               /\ PlaceOf(rk.order, i) < PlaceOf(rk.order, j)
               /\ j \in Returned(res) => i \in Returned(res)

\* The boost claim for equal base similarities taken from the set `bases`.
BoostRanksContactFirst(bases) ==
  rk.st = "out" =>
    /\ ~rk.contact => rk.sims = rk.base
    /\ rk.contact =>
         \A i, j \in 1..Len(rk.base) :
           ( /\ rk.base[i] = rk.base[j]
             /\ rk.base[i] \in bases
             /\ (rk.metas[i].contains_email \/ rk.metas[i].contains_phone)
             /\ ~(rk.metas[j].contains_email \/ rk.metas[j].contains_phone) ) =>
             /\ rk.sims[i] * BOOST_DEN = rk.base[i] * BOOST_NUM
             /\ rk.sims[j] = rk.base[j]
             /\ PlaceOf(rk.order, i) < PlaceOf(rk.order, j)

\* C9 as stated: for a contact query and two chunks of equal base similarity
\* of any sign, the chunk with contains_email or contains_phone ranks
\* strictly higher and scores base * 1.3; other queries change no score.
C9_BoostAnySign == BoostRanksContactFirst(BaseScores)

\* C9 restricted to equal base similarities greater than zero.
C9_BoostPositive == BoostRanksContactFirst({ b \in BaseScores : b > 0 })

\* The last turn is the user's "what's her phone?" and the turn before it
\* has the given content.
HerPhoneAfter(content) ==
  /\ rw.st = "retrieve"
  /\ Len(rw.history) >= 2
  /\ rw.history[Len(rw.history)] = [ role |-> "user", content |-> HerPhoneMsg ]
  /\ rw.history[Len(rw.history) - 1].content = content

\* C10 as stated: after a turn that mentions "Dr. Jane Smith" (or "Dr. Wasim
\* Zargar"), the follow-up "what's her phone?" is rewritten to the name
\* without its title followed by "contact email phone", with top_k = 12.
C10_RewriteDropsTitle ==
  /\ HerPhoneAfter(JaneMsg) =>
       /\ rw.query = << "Jane", "Smith", "contact", "email", "phone" >>
       /\ rw.top_k = 12
  /\ HerPhoneAfter(ZargarMsg) =>
       /\ rw.query = << "Wasim", "Zargar", "contact", "email", "phone" >>
       /\ rw.top_k = 12

\* C10 as amended: top_k is 12 in both cases; a name whose surname is in the
\* list of the code is kept with its title, and after a turn whose name has
\* another surname, with no listed name in the turns before, the query is
\* the user's message as it came.
C10_RewriteKeepsTitle ==
  /\ HerPhoneAfter(ZargarMsg) =>
       /\ rw.query = << "Dr.", "Wasim", "Zargar", "contact", "email", "phone" >>
       /\ rw.top_k = 12
  /\ ( /\ HerPhoneAfter(JaneMsg)
       /\ \A i \in 1..(Len(rw.history) - 1) : rw.history[i].content # ZargarMsg ) =>
       /\ rw.query = HerPhoneMsg
       /\ rw.top_k = 12

\* The query has been rewritten for "what's her phone?" after "Dr. Jane
\* Smith".
C10_Witness == HerPhoneAfter(JaneMsg) /\ rw.top_k = 12

\* C11: for every conversational input, well-formed or not, and for every
\* failure of the embedder or of the generation client, the chat operation
\* ends with a textual reply and no fault escapes the request.
C11_ChatAlwaysReplies ==
  ch.st = "done" => ch.outcome = "replied" /\ ch.reply # "none"

\* C12: for every page text of at least MIN_CHUNK_CHARS characters and
\* whichever strategy is selected, every chunk smart_chunk_text returns has
\* MIN_CHUNK_CHARS <= length <= MAX_CHUNK_CHARS, except that the last chunk
\* of a sentence packing may be shorter.
C12_ChunkLengthBounds ==
  (ck.st = "out" /\ ck.strategy # "none") =>
    \A k \in 1..Len(ck.chunks) :
      /\ ck.chunks[k].len <= MAX_CHUNK_CHARS
      /\ ck.chunks[k].len >= MIN_CHUNK_CHARS \/ ck.chunks[k].last_packed

\* The files of the folder that are of a supported type and read without a
\* failure.
ValidFiles ==
  { f \in FileNames :
      \/ f = << "guide", ".txt" >> /\ docs[f] \in { "guide", "note" }
      \/ f = << "staff", ".CSV" >> /\ docs[f] = "staff"
      \/ f = << "scan", ".pdf" >>  /\ docs[f] = "scan" }

\* The chunk texts of each content that reads well.
ChunksOfContent(content) ==
  CASE content = "guide" -> { "g0", "g1" }
    [] content = "staff" -> { "s0" }
    [] content = "scan"  -> { "p1", "p2" }
    [] OTHER -> { }

\* C13: for any folder that mixes valid files with files of an unsupported
\* type or files whose reading fails, in any listing order, the build
\* completes and the corpus holds exactly the chunks of the valid files.
C13_BadFilesIsolated ==
  \A w \in Writers :
    (pc[w] = "done" /\ loc[w].op = "upload") =>
      /\ loc[w].outcome = "returned"
      /\ \A k \in 1..Len(corpus_metadata) :
           corpus_metadata[k].source_file \in ValidFiles
      /\ \A f \in ValidFiles :
           { corpus[k] : k \in { j \in 1..Len(corpus) :
                                   corpus_metadata[j].source_file = f } }
             = ChunksOfContent(docs[f])

\* C14: when the embedder raises during a build, the live index is exactly
\* what it was before the build started: corpus, metadata and embedding
\* matrix unchanged.
C14_FailedBuildLeavesIndex ==
  \A w \in Writers :
    (pc[w] = "done" /\ loc[w].fault = "embed") =>
      /\ corpus = hist.before.corpus
      /\ corpus_metadata = hist.before.metadata
      /\ corpus_embeddings = hist.before.embeddings

\* The name a turn of the long histories mentions, << >> if none.
NameOf(content) ==
  CASE content = ZargarMsg -> << "Dr.", "Wasim", "Zargar" >>
    [] content = KhanMsg   -> << "Dr.", "Irfan", "Khan" >>
    [] OTHER -> << >>

\* The turns before the last one, among the last six of them, that mention
\* a name.
NamedInLastSix ==
  { i \in 1..(Len(rw.history) - 1) :
      i >= Len(rw.history) - 6 /\ NameOf(rw.history[i].content) # << >> }

C16_OneContactClassification ==
  (ch.st = "generate" /\ ~corpus_embeddings.none /\ corpus # << >>) =>
    (ch.top_k = 12 <=> ch.boost)

====
